---- MODULE Spec2Model ----
(***************************************************************************)
(* Model of the batch captioning pipeline of ImagesCaptionGUI:             *)
(* BatchProcessThread (src/src/main_window.py) and the MainWindow handlers *)
(* that launch it and that change the sampling configuration, and of the   *)
(* model switch: load_selected_model, switch_model_task and WorkerThread   *)
(* (src/src/worker_thread.py).                                             *)
(*                                                                         *)
(* Strings are sequences of tokens.  A file path is the pair               *)
(* <<root, ext>> that os.path.splitext splits it into.  A dict object is   *)
(* an index into heap, so that two names bound to the same dict share it.  *)
(***************************************************************************)
EXTENDS Integers, Sequences, FiniteSets, TLC

VARIABLES
    api_url,            \* BatchProcessThread.api_url
    api_key,            \* BatchProcessThread.api_key
    user_prompt,        \* BatchProcessThread.user_prompt
    use_tags,           \* BatchProcessThread.use_tags
    tags_format,        \* BatchProcessThread.tags_format
    image_files,        \* BatchProcessThread.image_files
    sampling_config,    \* BatchProcessThread.sampling_config (a reference)
    prefix,             \* BatchProcessThread.prefix
    caption_format,     \* BatchProcessThread.caption_format
    results,            \* BatchProcessThread.results
    pc,                 \* position of the worker in run()
    i,                  \* loop index of run()
    inflight,           \* captioning requests posted and not yet answered
    disk,               \* tag and caption sidecar files: path -> content
    heap,               \* dict objects: reference -> mapping
    signals,            \* signals emitted by the worker, in order
    log,                \* what happened to each image whose processing concluded
    sent,               \* sampling mappings carried by the requests of this batch
    mw_sampling_config, \* MainWindow.sampling_config (a reference)
    sampling_json,      \* content of sampling_config.json (<<>> when absent)
    selected_files,     \* MainWindow.selected_files
    prefix_text,        \* text of MainWindow.prefix_input
    use_tags_checked,   \* state of MainWindow.use_tags_checkbox
    current_model,      \* text of MainWindow.model_combo
    generate_enabled,   \* whether MainWindow.generate_button is enabled
    controls_enabled,   \* whether the select button and the mode radios are enabled
    is_batch_mode,      \* MainWindow.is_batch_mode
    current_image_path, \* MainWindow.current_image_path (<<>> when None)
    orphans,            \* batch workers replaced in MainWindow.worker before their handler ran
    single,             \* what the last single-image generation did (<<>> when none)
    mw_api_url,         \* MainWindow.api_url
    mw_api_key,         \* MainWindow.api_key
    config_json,        \* content of config.json (<<>> when absent)
    mw_tags_format,     \* MainWindow.tags_format
    mw_caption_format,  \* MainWindow.caption_format
    format_json,        \* content of format_config.json (<<>> when absent)
    format_saves,       \* number of Caption Format dialog saves so far
    format_dialog,      \* texts of the dialog's fields at its last Save click
    clicks,             \* what each click on Generate that launched nothing did
    saves,              \* number of Sampling dialog saves so far
    batches,            \* number of batches launched so far
    model_combo_enabled,       \* whether MainWindow.model_combo is enabled
    load_model_button_enabled, \* whether MainWindow.load_model_button is enabled
    switch_pc,          \* position of the model-switch WorkerThread in run()
    switch_kwargs,      \* WorkerThread.kwargs (<<>> when no worker was created)
    switch_calls,       \* keyword arguments of each call of task_func
    switch_events,      \* requests of switch_model_task: sent and ended, in order
    switch_answers,     \* last answer to each kind of request of switch_model_task
    retry,              \* loop index of the readiness loop of switch_model_task
    time_bound,         \* whether the local name time of switch_model_task is bound
    switch_outcome,     \* how task_func ended (<<>> while it has not)
    switch_signals,     \* signals emitted by the model-switch WorkerThread
    switch_handled      \* how many of them MainWindow has handled

vars == <<api_url, api_key, user_prompt, use_tags, tags_format,
          image_files, sampling_config, prefix, caption_format,
          results, pc, i, inflight, disk, heap, signals, log, sent,
          mw_sampling_config, sampling_json, selected_files, prefix_text,
          use_tags_checked, current_model, saves, batches, mw_api_url, mw_api_key, config_json,
          mw_tags_format, mw_caption_format, format_json, format_saves,
          format_dialog, clicks, generate_enabled, controls_enabled,
          is_batch_mode, current_image_path, orphans, single,
          model_combo_enabled, load_model_button_enabled, switch_pc,
          switch_kwargs, switch_calls, switch_events, switch_answers, retry,
          time_bound, switch_outcome, switch_signals, switch_handled>>

workerFields == <<api_url, api_key, user_prompt, use_tags, tags_format,
                  image_files, sampling_config, prefix, caption_format>>
samplingVars == <<mw_sampling_config, sampling_json, saves>>
configVars == <<mw_api_url, mw_api_key, config_json>>
formatVars == <<mw_tags_format, mw_caption_format, format_json, format_saves,
                format_dialog>>
widgetVars == <<prefix_text, use_tags_checked, current_model>>
buttonVars == <<generate_enabled, controls_enabled, is_batch_mode,
                current_image_path, orphans>>
taskVars == <<switch_pc, switch_calls, switch_events, switch_answers, retry,
              time_bound, switch_outcome, switch_signals>>
switchVars == <<model_combo_enabled, load_model_button_enabled, switch_kwargs,
                taskVars, switch_handled>>
uiVars == <<samplingVars, configVars, formatVars, selected_files, widgetVars,
            batches, clicks, buttonVars, single, switchVars>>

----------------------------------------------------------------------------
(* Bounds *)

MaxImages == 2      \* longest input list of a batch
MaxSlashes == 2     \* most trailing slashes of a configured base URL
MaxSaves == 1       \* Sampling dialog saves
MaxBatches == 1     \* batches launched from the window
MaxFormatSaves == 1 \* Caption Format dialog saves
MaxClicks == 2      \* clicks on Generate that launch nothing

----------------------------------------------------------------------------
(* Text *)

RECURSIVE lstrip(_)
lstrip(s) == IF s # <<>> /\ Head(s) = " " THEN lstrip(Tail(s)) ELSE s

RECURSIVE rstrip(_, _)
rstrip(s, ch) ==
    IF s # <<>> /\ s[Len(s)] = ch THEN rstrip(SubSeq(s, 1, Len(s) - 1), ch) ELSE s

strip_LeftOnly(s) == lstrip(s)

strip(s) == rstrip(lstrip(s), " ")

endswith(s, suffix) ==
    /\ Len(s) >= Len(suffix)
    /\ SubSeq(s, Len(s) - Len(suffix) + 1, Len(s)) = suffix

----------------------------------------------------------------------------
(* Files *)

\* File extensions, as the text typed into the Caption Format dialog.
Png == <<".", "png">>
Jpg == <<".", "jpg">>
Txt == <<".", "txt">>
Caption == <<".", "caption">>

Images == {<<"a", Png>>, <<"a", Jpg>>, <<"b", Png>>}

ImageLists ==
    {s \in UNION {[1..n -> Images] : n \in 1..MaxImages} :
        \A j, k \in DOMAIN s : j # k => s[j] # s[k]}

\* Lists as a caller may hand them to BatchProcessThread, repeats included.
AnyImageLists == UNION {[1..n -> Images] : n \in 1..MaxImages}

FolderImages == <<<<"a", Png>>, <<"b", Png>>>>

splitext(path) == <<path[1], path[2]>>

CaptionPath(image_path, ext) == <<splitext(image_path)[1], ext>>

TagsPath(image_path, ext) == <<splitext(image_path)[1], ext>>

basename(path) == path

OldText == <<"old">>

TagText == <<" ", "1girl", " ">>

InitialDisk == (<<"a", Caption>> :> OldText) @@ (<<"a", Txt>> :> TagText)

----------------------------------------------------------------------------
(* The captioning endpoint *)

ChatSuffix == <<"/", "v1", "/", "chat", "/", "completions">>

DefaultUrl == <<"http://127.0.0.1:5000">>

RECURSIVE Slashes(_)
Slashes(n) == IF n = 0 THEN <<>> ELSE <<"/">> \o Slashes(n - 1)

ApiUrls ==
    {DefaultUrl \o pre \o Slashes(m) : pre \in {<<>>, ChatSuffix}, m \in 0..MaxSlashes}

RequestUrl(url) == rstrip(url, "/") \o ChatSuffix

Choice(c) == [has_content |-> TRUE, content |-> c]
NoContentChoice == [has_content |-> FALSE, content |-> <<>>]

NotJson == [json |-> FALSE, has_choices |-> FALSE, choices |-> <<>>]
NoChoicesKey == [json |-> TRUE, has_choices |-> FALSE, choices |-> <<>>]
EmptyChoices == [json |-> TRUE, has_choices |-> TRUE, choices |-> <<>>]
ChoicesOf(cs) == [json |-> TRUE, has_choices |-> TRUE, choices |-> cs]

Bodies ==
    {NotJson, NoChoicesKey, EmptyChoices, ChoicesOf(<<NoContentChoice>>),
     ChoicesOf(<<Choice(<<"C">>)>>), ChoicesOf(<<Choice(<<"D">>), Choice(<<"C">>)>>)}

Responses ==
    {[raised |-> FALSE, status |-> 200, body |-> b] : b \in Bodies}
    \cup {[raised |-> FALSE, status |-> 500, body |-> b] :
              b \in {NotJson, ChoicesOf(<<Choice(<<"C">>)>>)}}
    \cup {[raised |-> TRUE, status |-> 0, body |-> NotJson]}

NoResponse == [raised |-> TRUE, status |-> 0, body |-> NotJson]

WriteOutcomes == {"ok", "open_error", "write_error"}

----------------------------------------------------------------------------
(* Sampling configuration *)

DefaultSampling ==
    [temperature |-> "0.5", top_p |-> "0.5", top_k |-> 50, max_tokens |-> 500]

DialogConfigs ==
    {DefaultSampling,
     [temperature |-> "0.7", top_p |-> "0.9", top_k |-> 40, max_tokens |-> 300]}

\* A sampling_config.json edited by hand, without max_tokens.
PartialSampling == [temperature |-> "0.7", top_p |-> "0.9", top_k |-> 40]

ModelNames == {<<"llava", "-", "7b">>, <<"Qwen", "-", "EXL2">>}

lower(s) ==
    [k \in DOMAIN s |-> CASE s[k] = "EXL2" -> "exl2"
                          [] s[k] = "Qwen" -> "qwen"
                          [] OTHER -> s[k]]

\* Line 1133.
IsExl2_CaseSensitive(name) == \E k \in DOMAIN name : name[k] = "exl2"

IsExl2(name) == \E k \in DOMAIN lower(name) : lower(name)[k] = "exl2"

Exl2Sampling(user) ==
    [temperature |-> "1.0", top_k |-> 1, top_p |-> "1.0", typical |-> "1.0",
     min_p |-> "0.0", mirostat |-> FALSE, smoothing_factor |-> "0.0",
     tfs |-> "1.0", temperature_last |-> FALSE,
     token_repetition_penalty |-> "1.0", token_frequency_penalty |-> "0.0",
     token_presence_penalty |-> "0.0",
     max_tokens |-> IF "max_tokens" \in DOMAIN user THEN user.max_tokens ELSE 500]

PrefixInputs == {<<" ">>, <<" ", "P", " ">>}

----------------------------------------------------------------------------
(* Prompt and request body *)

BriefPrompt == <<"Describe the picture briefly.">>

TagSentence ==
    <<" Also here are booru tags for better understanding of the picture, you can use them as reference.">>

Augment_NoStrip(prompt, tags) ==
    prompt \o TagSentence \o <<" <tags>\n">> \o tags \o <<"\n</tags>">>

\* Lines 138-140: the tag text is trimmed and wrapped.
Augment(prompt, tags) ==
    prompt \o TagSentence \o <<" <tags>\n">> \o strip(tags) \o <<"\n</tags>">>

\* The bytes of an image file, and their base64 text.
ImageBytes(image_path) == <<"bytes", image_path>>
b64encode(bytes) == <<"base64">> \o bytes

Headers(key) == [Authorization |-> <<"Bearer ">> \o key]

UserContent(image_base64, prompt) ==
    <<[type |-> "image_url", url |-> <<"data:image/jpeg;base64,">> \o image_base64,
       text |-> <<>>],
      [type |-> "text", url |-> <<>>, text |-> prompt]>>

\* Lines 163-183: a system message naming the image, then the user message.
Messages(index, total, image_path, image_base64, prompt) ==
    <<[role |-> "system",
       content |-> <<[type |-> "note", url |-> <<>>,
                      text |-> <<"Processing image", index, "of", total,
                                 basename(image_path)>>]>>],
      [role |-> "user", content |-> UserContent(image_base64, prompt)]>>

\* Lines 162-185: the keys of the sampling mapping are spread into the dict
\* literal after "messages", so a key of that name would replace it.
Payload(messages, sampling) == sampling @@ ("messages" :> messages)

----------------------------------------------------------------------------
(* BatchProcessThread.run *)

N == Len(image_files)

Progress_Swapped(index, total) == [type |-> "progress", index |-> total, total |-> index]

Progress(index, total) == [type |-> "progress", index |-> index, total |-> total]
Finished(res) == [type |-> "finished", index |-> 0, total |-> 0, results |-> res]
Error == [type |-> "error", index |-> 0, total |-> 0]

StatusOk_Any(status) == TRUE

StatusOk(status) == status = 200

WithPrefix_Dropped(p, caption) == caption

WithPrefix(p, caption) == IF p # <<>> THEN p \o <<"\n">> \o caption ELSE caption

\* Which exceptions the per-image "except Exception" catches.
CaughtPerImage_ReadEscapes(kind) == kind # "read_error"

CaughtPerImage_ParseEscapes(kind) == kind \notin {"bad_json", "no_content"}

CaughtPerImage(kind) == TRUE

\* Lines 196-209 for one response: what is recorded, what is written, and
\* whether an exception leaves the block.
HandleBody(resp, wr) ==
    LET none == [record |-> FALSE, caption |-> <<>>, write |-> "none", exc |-> "none"]
    IN  IF resp.raised THEN [none EXCEPT !.exc = "post_error"]
        ELSE IF ~StatusOk(resp.status) THEN none
        ELSE IF ~resp.body.json THEN [none EXCEPT !.exc = "bad_json"]
        ELSE IF ~(resp.body.has_choices /\ Len(resp.body.choices) > 0) THEN none
        ELSE IF ~resp.body.choices[1].has_content THEN [none EXCEPT !.exc = "no_content"]
        ELSE [record |-> TRUE,
              caption |-> WithPrefix(prefix, resp.body.choices[1].content),
              write |-> wr,
              exc |-> IF wr = "ok" THEN "none" ELSE wr]

\* The per-image handler (lines 211-213), or the outer one when the
\* exception is not caught there (lines 219-221).
Raise(kind) ==
    IF CaughtPerImage(kind)
    THEN /\ pc' = "loop"
         /\ UNCHANGED signals
    ELSE /\ pc' = "done"
         /\ signals' = Append(signals, Error)

LoopNext ==
    /\ pc = "loop"
    /\ i < N
    /\ i' = i + 1
    /\ pc' = "body"
    /\ UNCHANGED <<workerFields, results, inflight, disk, heap, signals, log, sent, uiVars>>

\* Lines 131-143: what loading the tags came to.  "off": use_tags is false;
\* "absent": no tag sidecar; "error": reading it raised; "read": it was read.
LoadTags(image_path, tags_readable) ==
    IF ~use_tags THEN "off"
    ELSE IF TagsPath(image_path, tags_format) \notin DOMAIN disk THEN "absent"
    ELSE IF ~tags_readable THEN "error"
    ELSE "read"

PromptFor(image_path, tags) ==
    IF tags = "read"
    THEN Augment(user_prompt, disk[TagsPath(image_path, tags_format)])
    ELSE user_prompt

\* Lines 142-143: the inner handler swallows whatever loading the tags
\* raised, so the statements after it run whatever the tags came to.
TagErrorSwallowed_Not(tags) == tags # "error"

TagErrorSwallowed(tags) == TRUE

\* Line 190: requests.post returns only with the response, so the worker
\* waits for it before anything else.
AfterPost_NoWait == "loop"

AfterPost == "await"

PrepareRequest ==
    /\ pc = "body"
    /\ \E tags_readable \in BOOLEAN, readable \in BOOLEAN :
          LET image_path == image_files[i]
              tags == LoadTags(image_path, tags_readable)
              prompt == PromptFor(image_path, tags)
          IN  IF TagErrorSwallowed(tags) /\ readable
              THEN /\ inflight' = Append(inflight,
                           [index |-> i, url |-> RequestUrl(api_url),
                            headers |-> Headers(api_key),
                            json |-> Payload(Messages(i, N, image_path,
                                            b64encode(ImageBytes(image_path)), prompt),
                                          heap[sampling_config]),
                            sampling |-> heap[sampling_config],
                            tags |-> tags])
                   /\ sent' = sent \cup {heap[sampling_config]}
                   /\ pc' = AfterPost
                   /\ UNCHANGED <<log, signals>>
              ELSE /\ log' = Append(log, [read |-> readable, tags |-> tags,
                                          resp |-> NoResponse, write |-> "none"])
                   /\ Raise("read_error")
                   /\ UNCHANGED <<inflight, sent>>
    /\ UNCHANGED <<workerFields, results, i, disk, heap, uiVars>>

\* Line 204: the results dict is keyed by the path of the image.
ResultKey_CaptionPath(image_path) == CaptionPath(image_path, caption_format)

ResultKey(image_path) == image_path

HandleResponse ==
    /\ pc = "await"
    /\ inflight' = <<>>
    /\ \E resp \in Responses, wr \in WriteOutcomes :
          LET out == HandleBody(resp, wr)
              image_path == image_files[i]
              caption_path == CaptionPath(image_path, caption_format)
          IN  /\ results' = IF out.record
                            THEN (ResultKey(image_path) :> out.caption) @@ results
                            ELSE results
              /\ disk' = CASE out.write = "ok" -> (caption_path :> out.caption) @@ disk
                           [] out.write = "write_error" -> (caption_path :> <<>>) @@ disk
                           [] OTHER -> disk
              /\ log' = Append(log, [read |-> TRUE, tags |-> inflight[1].tags,
                                     resp |-> resp, write |-> out.write])
              /\ IF out.exc # "none"
                 THEN Raise(out.exc)
                 ELSE /\ signals' = Append(signals, Progress(i, N))
                      /\ pc' = "loop"
    /\ UNCHANGED <<workerFields, i, heap, sent, uiVars>>

RunFinished_Restart ==
    /\ pc = "loop"
    /\ i = N
    /\ i' = 0
    /\ log' = <<>>
    /\ signals' = <<>>
    /\ pc' = "loop"
    /\ UNCHANGED <<workerFields, results, inflight, disk, heap, sent, uiVars>>

\* Lines 217-218: the loop is over, finished is emitted and run() returns.
RunFinished ==
    /\ pc = "loop"
    /\ i = N
    /\ signals' = Append(signals, Finished(results))
    /\ pc' = "done"
    /\ UNCHANGED <<workerFields, results, i, inflight, disk, heap, log, sent, uiVars>>

RunError_Continues ==
    /\ pc = "loop"
    /\ i < N
    /\ i' = i + 1
    /\ signals' = Append(signals, Error)
    /\ pc' = "loop"
    /\ UNCHANGED <<workerFields, results, inflight, disk, heap, log, sent, uiVars>>

RunError_Rollback ==
    /\ pc = "loop"
    /\ i' = IF i < N THEN i + 1 ELSE i
    /\ signals' = Append(signals, Error)
    /\ disk' = InitialDisk
    /\ pc' = "done"
    /\ UNCHANGED <<workerFields, results, inflight, heap, log, sent, uiVars>>

\* A statement outside the per-image try raises (the print of line 128 or
\* of line 217): the outer handler emits error.
RunError ==
    /\ pc = "loop"
    /\ i' = IF i < N THEN i + 1 ELSE i
    /\ signals' = Append(signals, Error)
    /\ pc' = "done"
    /\ UNCHANGED <<workerFields, results, inflight, disk, heap, log, sent, uiVars>>

----------------------------------------------------------------------------
(* The model controls before any model load *)

NoAnswers == [health |-> "none", unload |-> "none", load |-> "none", poll |-> "none"]

\* MainWindow.__init__ (lines 370-382): the combo box and the Load button are
\* created enabled, and no WorkerThread exists.
NoSwitch ==
    /\ model_combo_enabled = TRUE
    /\ load_model_button_enabled = TRUE
    /\ switch_pc = "none"
    /\ switch_kwargs = <<>>
    /\ switch_calls = <<>>
    /\ switch_events = <<>>
    /\ switch_answers = NoAnswers
    /\ retry = 0
    /\ time_bound = FALSE
    /\ switch_outcome = <<>>
    /\ switch_signals = <<>>
    /\ switch_handled = 0

----------------------------------------------------------------------------
(* A started batch *)

Started(files, url, pfx, tags) ==
    /\ api_url = url
    /\ api_key = <<"key">>
    /\ user_prompt = BriefPrompt
    /\ use_tags = tags
    /\ tags_format = Txt
    /\ image_files = files
    /\ prefix = strip(pfx)
    /\ prefix_text = pfx
    /\ use_tags_checked = tags
    /\ current_model = <<"llava", "-", "7b">>
    /\ generate_enabled = FALSE
    /\ controls_enabled = FALSE
    /\ is_batch_mode = TRUE
    /\ current_image_path = <<>>
    /\ orphans = 0
    /\ single = <<>>
    /\ caption_format = Caption
    /\ results = <<>>
    /\ pc = "loop"
    /\ i = 0
    /\ inflight = <<>>
    /\ disk = InitialDisk
    /\ signals = <<>>
    /\ log = <<>>
    /\ sent = {}
    /\ heap = <<DefaultSampling>>
    /\ sampling_config = 1
    /\ mw_sampling_config = 1
    /\ sampling_json = <<>>
    /\ selected_files = files
    /\ saves = 0
    /\ batches = 1
    /\ mw_api_url = url
    /\ mw_api_key = <<"key">>
    /\ config_json = <<[api_url |-> url, api_key |-> <<"key">>]>>
    /\ mw_tags_format = Txt
    /\ mw_caption_format = Caption
    /\ format_json = <<>>
    /\ format_saves = 0
    /\ format_dialog = <<>>
    /\ clicks = <<>>
    /\ NoSwitch

Init ==
    \E files \in ImageLists, pfx \in PrefixInputs, tags \in BOOLEAN :
        Started(files, DefaultUrl, pfx, tags)

Next == LoopNext \/ PrepareRequest \/ HandleResponse \/ RunFinished \/ RunError

Spec == Init /\ [][Next]_vars

InitUrl == \E url \in ApiUrls : Started(FolderImages, url, <<>>, FALSE)

SpecUrl == InitUrl /\ [][Next]_vars

InitAnyList == \E files \in AnyImageLists : Started(files, DefaultUrl, <<>>, FALSE)

SpecAnyList == InitAnyList /\ [][Next]_vars

\* The worker thread keeps being scheduled, and every request it posted
\* returns or raises; nothing obliges an exception outside the per-image
\* try to happen.
SpecLive ==
    /\ InitAnyList
    /\ [][Next]_vars
    /\ WF_vars(LoopNext)
    /\ WF_vars(PrepareRequest)
    /\ WF_vars(HandleResponse)
    /\ WF_vars(RunFinished)

----------------------------------------------------------------------------
(* MainWindow: selection, the settings dialogs, launching a batch *)

\* load_sampling_config binds MainWindow.sampling_config to the freshly
\* parsed mapping; the dict it was bound to before is left as it was.
load_sampling_config_InPlace(h, ref, file) ==
    IF file = <<>> THEN [heap |-> h, ref |-> ref]
    ELSE [heap |-> [h EXCEPT ![ref] = file[1]], ref |-> ref]

load_sampling_config(h, ref, file) ==
    IF file = <<>> THEN [heap |-> h, ref |-> ref]
    ELSE [heap |-> Append(h, file[1]), ref |-> Len(h) + 1]

\* update_generate_button_state, the definition of lines 1351-1366 (it
\* replaces the one of lines 1077-1088); the style is never "Custom" here.
ShouldEnable(batch_mode, files, image_path) ==
    IF batch_mode THEN Len(files) > 0 ELSE image_path # <<>>

\* update_select_button (lines 978-985): a mode radio is toggled.
toggle_mode ==
    /\ controls_enabled
    /\ is_batch_mode' = ~is_batch_mode
    /\ UNCHANGED <<workerFields, results, pc, i, inflight, disk, heap, signals, log,
                   sent, samplingVars, configVars, formatVars, switchVars, selected_files,
                   widgetVars, batches, clicks, single, generate_enabled, controls_enabled,
                   current_image_path, orphans>>

\* The 5-second timer (lines 483-485, 916-936): the status request is
\* answered with something else than 500, or it is not.
check_backend_status ==
    /\ \E connected \in BOOLEAN :
          generate_enabled' = IF connected
                              THEN ShouldEnable(is_batch_mode, selected_files,
                                                current_image_path)
                              ELSE FALSE
    /\ UNCHANGED <<workerFields, results, pc, i, inflight, disk, heap, signals, log,
                   sent, samplingVars, configVars, formatVars, switchVars, selected_files,
                   widgetVars, batches, clicks, single, controls_enabled, is_batch_mode,
                   current_image_path, orphans>>

\* use_tags_checkbox.stateChanged is connected to
\* update_generate_button_state (line 468); the checkbox is never disabled.
toggle_use_tags ==
    /\ use_tags_checked' = ~use_tags_checked
    /\ generate_enabled' = ShouldEnable(is_batch_mode, selected_files,
                                        current_image_path)
    /\ UNCHANGED <<workerFields, results, pc, i, inflight, disk, heap, signals, log,
                   sent, samplingVars, configVars, formatVars, switchVars, selected_files,
                   prefix_text, current_model, batches, clicks, single, controls_enabled,
                   is_batch_mode, current_image_path, orphans>>

\* handle_select in folder mode, with a folder that holds images.
select_folder ==
    /\ controls_enabled
    /\ is_batch_mode
    /\ selected_files' = FolderImages
    /\ current_image_path' = <<>>
    /\ generate_enabled' = ShouldEnable(is_batch_mode, FolderImages, <<>>)
    /\ UNCHANGED <<workerFields, results, pc, i, inflight, disk, heap, signals, log,
                   sent, samplingVars, configVars, formatVars, switchVars, widgetVars,
                   batches, clicks, single, controls_enabled, is_batch_mode, orphans>>

\* SamplingConfigDialog.save_config followed by load_sampling_config; the
\* Settings menu stays usable while a batch runs.
show_sampling_dialog ==
    /\ saves < MaxSaves
    /\ saves' = saves + 1
    /\ \E config \in DialogConfigs :
          LET loaded == load_sampling_config(heap, mw_sampling_config, <<config>>)
          IN  /\ sampling_json' = <<config>>
              /\ heap' = loaded.heap
              /\ mw_sampling_config' = loaded.ref
    /\ UNCHANGED <<workerFields, results, pc, i, inflight, disk, signals, log, sent,
                   configVars, formatVars, switchVars, selected_files, widgetVars, batches,
                   clicks, single, buttonVars>>

\* Texts typed into the two fields of the Caption Format dialog.
FormatInputs == {Txt, <<" ">> \o Caption \o <<" ">>, <<"txt">>}

startswith(s, ch) == s # <<>> /\ s[1] = ch

\* CaptionFormatDialog.save_settings (lines 82-102): both texts are stripped
\* and must start with a dot, nothing else is asked of them.
FormatAccepted_TagsOnly(tags_text, caption_text) == startswith(strip(tags_text), ".")

FormatAccepted(tags_text, caption_text) ==
    startswith(strip(tags_text), ".") /\ startswith(strip(caption_text), ".")

\* show_format_dialog: save_settings, then load_format_settings when the
\* dialog was accepted.  The Settings menu stays usable while a batch runs.
show_format_dialog ==
    /\ format_saves < MaxFormatSaves
    /\ format_saves' = format_saves + 1
    /\ \E tags_text \in FormatInputs, caption_text \in FormatInputs :
          /\ format_dialog' = <<[tags_format |-> tags_text,
                                 caption_format |-> caption_text]>>
          /\ IF FormatAccepted(tags_text, caption_text)
             THEN /\ format_json' = <<[tags_format |-> strip(tags_text),
                                       caption_format |-> strip(caption_text)]>>
                  /\ mw_tags_format' = strip(tags_text)
                  /\ mw_caption_format' = strip(caption_text)
             ELSE UNCHANGED <<format_json, mw_tags_format, mw_caption_format>>
    /\ UNCHANGED <<workerFields, results, pc, i, inflight, disk, heap, signals, log,
                   sent, samplingVars, configVars, switchVars, selected_files,
                   widgetVars, batches, clicks, single, buttonVars>>

\* Texts typed into the API Configuration dialog.
UrlInputs == {<<>>, DefaultUrl}
KeyInputs == {<<>>, <<"key">>}

\* APIConfigDialog.save_config then MainWindow.load_config (lines 251-258,
\* 891-897); nothing changes when the dialog is dismissed.
ConfigDialog(saved, url, key) ==
    IF saved
    THEN /\ config_json' = <<[api_url |-> url, api_key |-> key]>>
         /\ mw_api_url' = url
         /\ mw_api_key' = key
    ELSE UNCHANGED configVars

\* Line 1091.
ConfigMissing_UrlOnly(url, key) == url = <<>>

ConfigMissing(url, key) == url = <<>> \/ key = <<>>

Click(test, dialog) == [test_request |-> test, config_dialog |-> dialog]

\* generate_caption, lines 1090-1095: the configuration is incomplete.
generate_caption_unconfigured ==
    /\ generate_enabled
    /\ Len(clicks) < MaxClicks
    /\ ConfigMissing(mw_api_url, mw_api_key)
    /\ clicks' = Append(clicks, Click(FALSE, TRUE))
    /\ \E saved \in BOOLEAN, url \in UrlInputs, key \in KeyInputs :
          ConfigDialog(saved, url, key)
    /\ UNCHANGED <<workerFields, results, pc, i, inflight, disk, heap, signals, log,
                   sent, samplingVars, formatVars, switchVars, selected_files, widgetVars,
                   batches, buttonVars, single>>

\* generate_caption, lines 1097-1119: the test request fails or is not
\* answered 200.
generate_caption_not_ready ==
    /\ generate_enabled
    /\ Len(clicks) < MaxClicks
    /\ ~ConfigMissing(mw_api_url, mw_api_key)
    /\ clicks' = Append(clicks, Click(TRUE, FALSE))
    /\ UNCHANGED <<workerFields, results, pc, i, inflight, disk, heap, signals, log,
                   sent, samplingVars, configVars, formatVars, switchVars, selected_files,
                   widgetVars, batches, buttonVars, single>>

\* The batch branch of generate_caption (lines 1121-1153, 1228-1248), taken
\* when the configuration is present and the test request answers 200.
generate_caption ==
    /\ generate_enabled
    /\ ~ConfigMissing(mw_api_url, mw_api_key)
    /\ is_batch_mode /\ selected_files # <<>>
    /\ generate_enabled' = FALSE
    /\ controls_enabled' = FALSE
    /\ orphans' = IF pc = "idle" THEN orphans ELSE orphans + 1
    /\ inflight' = <<>>
    /\ batches < MaxBatches
    /\ batches' = batches + 1
    /\ IF IsExl2(current_model)
       THEN /\ heap' = Append(heap, Exl2Sampling(heap[mw_sampling_config]))
            /\ sampling_config' = Len(heap) + 1
       ELSE /\ heap' = heap
            /\ sampling_config' = mw_sampling_config
    /\ prefix' = strip(prefix_text)
    /\ use_tags' = use_tags_checked
    /\ api_url' = mw_api_url
    /\ api_key' = mw_api_key
    /\ user_prompt' = BriefPrompt
    /\ tags_format' = mw_tags_format
    /\ caption_format' = mw_caption_format
    /\ image_files' = selected_files
    /\ results' = <<>>
    /\ i' = 0
    /\ pc' = "loop"
    /\ signals' = <<>>
    /\ log' = <<>>
    /\ sent' = {}
    /\ UNCHANGED <<disk, samplingVars, configVars, formatVars, switchVars, selected_files,
                   widgetVars, clicks, single, is_batch_mode, current_image_path>>

batch_processing_finished ==
    /\ pc = "done"
    /\ signals[Len(signals)].type = "finished"
    /\ pc' = "idle"
    /\ generate_enabled' = TRUE
    /\ controls_enabled' = TRUE
    /\ UNCHANGED <<workerFields, results, i, inflight, disk, heap, signals, log, sent,
                   samplingVars, configVars, formatVars, switchVars, selected_files, widgetVars,
                   batches, clicks, single, is_batch_mode, current_image_path, orphans>>

batch_processing_error ==
    /\ pc = "done"
    /\ signals[Len(signals)].type = "error"
    /\ pc' = "idle"
    /\ generate_enabled' = TRUE
    /\ controls_enabled' = TRUE
    /\ UNCHANGED <<workerFields, results, i, inflight, disk, heap, signals, log, sent,
                   samplingVars, configVars, formatVars, switchVars, selected_files, widgetVars,
                   batches, clicks, single, is_batch_mode, current_image_path, orphans>>

\* MainWindow.__init__ with the given config.json (lines 345-357) and the
\* model combo box showing one of the given texts.
Window(config, sampling_file, combo_texts) ==
    /\ api_url = DefaultUrl
    /\ api_key = <<>>
    /\ user_prompt = BriefPrompt
    /\ use_tags = FALSE
    /\ tags_format = Txt
    /\ image_files = <<>>
    /\ prefix = <<>>
    /\ prefix_text = <<>>
    /\ use_tags_checked = FALSE
    /\ current_model \in combo_texts
    /\ generate_enabled = FALSE
    /\ controls_enabled = TRUE
    /\ is_batch_mode = FALSE
    /\ current_image_path = <<>>
    /\ orphans = 0
    /\ single = <<>>
    /\ caption_format = Caption
    /\ results = <<>>
    /\ pc = "idle"
    /\ i = 0
    /\ inflight = <<>>
    /\ disk = InitialDisk
    /\ signals = <<>>
    /\ log = <<>>
    /\ sent = {}
    /\ heap = load_sampling_config(<<DefaultSampling>>, 1, sampling_file).heap
    /\ sampling_config = 1
    /\ mw_sampling_config = load_sampling_config(<<DefaultSampling>>, 1, sampling_file).ref
    /\ sampling_json = sampling_file
    /\ selected_files = <<>>
    /\ saves = 0
    /\ batches = 0
    /\ config_json = config
    /\ mw_api_url = IF config = <<>> THEN DefaultUrl ELSE config[1].api_url
    /\ mw_api_key = IF config = <<>> THEN <<>> ELSE config[1].api_key
    /\ mw_tags_format = Txt
    /\ mw_caption_format = Caption
    /\ format_json = <<>>
    /\ format_saves = 0
    /\ format_dialog = <<>>
    /\ clicks = <<>>
    /\ NoSwitch

\* The window with a model of the server selected in the combo box.
Constructed(config, sampling_file) == Window(config, sampling_file, ModelNames)

InitUI == Constructed(<<[api_url |-> DefaultUrl, api_key |-> <<"key">>]>>, <<>>)

NextUI ==
    \/ toggle_mode
    \/ select_folder
    \/ show_sampling_dialog
    \/ generate_caption
    \/ batch_processing_finished
    \/ batch_processing_error
    \/ LoopNext
    \/ PrepareRequest
    \/ HandleResponse
    \/ RunFinished
    \/ RunError

SpecUI == InitUI /\ [][NextUI]_vars

\* The window as constructed with or without a sampling_config.json.
InitSampling ==
    \E file \in {<<>>, <<PartialSampling>>} :
        Constructed(<<[api_url |-> DefaultUrl, api_key |-> <<"key">>]>>, file)

SpecSampling == InitSampling /\ [][NextUI]_vars

\* The window as constructed with any config.json, or none.
InitConfig ==
    \E config \in {<<>>} \cup {<<[api_url |-> u, api_key |-> k]>> :
                                  u \in UrlInputs, k \in KeyInputs} :
        Constructed(config, <<>>)

NextConfig ==
    \/ toggle_mode
    \/ select_folder
    \/ generate_caption_unconfigured
    \/ generate_caption_not_ready
    \/ generate_caption
    \/ batch_processing_finished
    \/ batch_processing_error
    \/ LoopNext
    \/ PrepareRequest
    \/ HandleResponse
    \/ RunFinished
    \/ RunError

SpecConfig == InitConfig /\ [][NextConfig]_vars

\* handle_select in single mode (upload_image, lines 994-1008), a file chosen.
upload_image ==
    /\ controls_enabled
    /\ ~is_batch_mode
    /\ \E file_name \in Images :
          /\ current_image_path' = <<file_name>>
          /\ generate_enabled' = ShouldEnable(is_batch_mode, <<>>, <<file_name>>)
    /\ selected_files' = <<>>
    /\ UNCHANGED <<workerFields, results, pc, i, inflight, disk, heap, signals, log,
                   sent, samplingVars, configVars, formatVars, switchVars, widgetVars, batches,
                   clicks, single, controls_enabled, is_batch_mode, orphans>>

\* Lines 1258-1283: the tags are looked up twice, first with the extension
\* '.txt', then with the configured one, and each hit extends the prompt.
SinglePrompt(prompt, image_path, checked, tags_readable) ==
    LET first == IF /\ checked
                    /\ TagsPath(image_path, Txt) \in DOMAIN disk
                    /\ tags_readable
                 THEN Augment(prompt, disk[TagsPath(image_path, Txt)])
                 ELSE prompt
    IN  IF /\ checked
           /\ TagsPath(image_path, mw_tags_format) \in DOMAIN disk
           /\ tags_readable
        THEN Augment(first, disk[TagsPath(image_path, mw_tags_format)])
        ELSE first

RequestStamp == <<" [Request: ", "time", "]">>

\* Answers to a single-image request: none, an error status, one caption.
SingleResponses ==
    {NoResponse,
     [raised |-> FALSE, status |-> 500, body |-> NotJson],
     [raised |-> FALSE, status |-> 200, body |-> ChoicesOf(<<Choice(<<"C">>)>>)]}

\* The single-image branch of generate_caption (lines 1250-1349), run in
\* the GUI thread from the click to the handling of the response.
generate_caption_single ==
    /\ generate_enabled
    /\ ~ConfigMissing(mw_api_url, mw_api_key)
    /\ ~(is_batch_mode /\ selected_files # <<>>)
    /\ \E tags_readable \in BOOLEAN, readable \in BOOLEAN,
          resp \in SingleResponses, wr \in {"ok", "open_error"} :
          LET attempt == [image_path |-> current_image_path,
                          checked |-> use_tags_checked,
                          tags_format |-> mw_tags_format,
                          tags_readable |-> tags_readable,
                          has_sidecar |->
                              /\ current_image_path # <<>>
                              /\ TagsPath(current_image_path[1], mw_tags_format)
                                     \in DOMAIN disk,
                          sent |-> FALSE, text |-> <<>>]
          IN  IF current_image_path = <<>> \/ ~readable
              THEN /\ single' = <<attempt>>
                   /\ disk' = disk
              ELSE LET image_path == current_image_path[1]
                       text == SinglePrompt(BriefPrompt, image_path,
                                            use_tags_checked, tags_readable)
                               \o RequestStamp
                       caption_path == CaptionPath(image_path, mw_caption_format)
                       written ==
                           /\ ~resp.raised /\ resp.status = 200 /\ resp.body.json
                           /\ resp.body.has_choices /\ Len(resp.body.choices) > 0
                           /\ resp.body.choices[1].has_content
                       caption == WithPrefix(strip(prefix_text),
                                             resp.body.choices[1].content)
                   IN  /\ single' = <<[attempt EXCEPT !.sent = TRUE, !.text = text]>>
                       /\ disk' = CASE written /\ wr = "ok" ->
                                         (caption_path :> caption) @@ disk
                                    [] written /\ wr = "write_error" ->
                                         (caption_path :> <<>>) @@ disk
                                    [] OTHER -> disk
    /\ UNCHANGED <<workerFields, results, pc, i, inflight, heap, signals, log, sent,
                   samplingVars, configVars, formatVars, switchVars, selected_files, widgetVars,
                   batches, clicks, buttonVars>>

NextSingle ==
    \/ upload_image
    \/ toggle_use_tags
    \/ show_format_dialog
    \/ generate_caption_single

SpecSingle == InitUI /\ [][NextSingle]_vars

----------------------------------------------------------------------------
(* Model switch: load_selected_model, WorkerThread, switch_model_task *)

max_retries == 30

AddNewModel == <<"Add new model...">>
Separator == <<"-", "-">>

\* Texts the combo box can show (refresh_models, lines 609-613).
ComboTexts == ModelNames \cup {AddNewModel, Separator}

\* The selection load_selected_model accepts (line 499).
ValidSelection(selected_model) ==
    /\ selected_model # <<>>
    /\ selected_model # AddNewModel
    /\ ~startswith(selected_model, "-")

Send(kind) == [ev |-> "send", kind |-> kind]
End(kind) == [ev |-> "end", kind |-> kind]

\* Texts of the exceptions switch_model_task raises.
RequestFailed == <<"request failed">>
LoadRefused == <<"Error initiating model load: ">>
NeverReady == <<"Model failed to become ready after maximum retries">>
TimeUnbound == <<"local variable 'time' referenced before assignment">>

\* Clicking Load with a valid selection; with another selection the handler
\* only shows a warning (lines 499-501).
load_selected_model ==
    /\ load_model_button_enabled
    /\ ValidSelection(current_model)
    /\ model_combo_enabled' = FALSE
    /\ load_model_button_enabled' = FALSE
    /\ generate_enabled' = FALSE
    /\ switch_kwargs' = <<[model_name |-> current_model, api_url |-> mw_api_url,
                           api_key |-> mw_api_key]>>
    /\ switch_pc' = "started"
    /\ orphans' = IF pc = "idle" THEN orphans ELSE orphans + 1
    /\ UNCHANGED <<workerFields, results, pc, i, inflight, disk, heap, signals, log,
                   sent, samplingVars, configVars, formatVars, selected_files,
                   widgetVars, batches, clicks, single, controls_enabled,
                   is_batch_mode, current_image_path, switch_calls, switch_events,
                   switch_answers, retry, time_bound, switch_outcome,
                   switch_signals, switch_handled>>

\* What the task leaves alone.
TaskFrame ==
    UNCHANGED <<workerFields, results, pc, i, inflight, disk, heap, signals, log,
                sent, samplingVars, configVars, formatVars, selected_files,
                widgetVars, batches, clicks, single, buttonVars,
                model_combo_enabled, load_model_button_enabled, switch_kwargs,
                switch_signals, switch_handled>>

\* The outer handler of switch_model_task (lines 578-580).
SwitchRaise(events, e) ==
    /\ switch_pc' = "ended"
    /\ switch_events' = events
    /\ switch_outcome' = <<[raised |-> TRUE,
                            value |-> <<"Error switching model: ">> \o e]>>

\* Line 570.
SwitchReturn(events, model_name) ==
    /\ switch_pc' = "ended"
    /\ switch_events' = events
    /\ switch_outcome' = <<[raised |-> FALSE,
                            value |-> [status |-> "success", model |-> model_name]]>>

\* The request that follows the answer of the first health check (line 534).
AfterHealth_AlwaysUnload(status) == "unload"

AfterHealth(status) == IF status = "200" THEN "unload" ELSE "load"

\* WorkerThread.run calls task_func (line 15); switch_model_task runs up to
\* its first request (lines 523-533).
run_task_func ==
    /\ switch_pc = "started"
    /\ switch_calls' = Append(switch_calls, switch_kwargs[1])
    /\ switch_events' = <<Send("health")>>
    /\ switch_answers' = NoAnswers
    /\ retry' = 0
    /\ time_bound' = FALSE
    /\ switch_pc' = "health"
    /\ UNCHANGED switch_outcome
    /\ TaskFrame

\* The first health check returns or raises (lines 533-538, 546-555).
switch_health ==
    /\ switch_pc = "health"
    /\ \E answer \in {"200", "other", "raised"} :
          /\ switch_answers' = [switch_answers EXCEPT !.health = answer]
          /\ IF answer = "raised"
             THEN SwitchRaise(Append(switch_events, End("health")), RequestFailed)
             ELSE /\ switch_pc' = AfterHealth(answer)
                  /\ switch_events' = switch_events \o
                         <<End("health"), Send(AfterHealth(answer))>>
                  /\ UNCHANGED switch_outcome
    /\ UNCHANGED <<retry, time_bound>>
    /\ UNCHANGED switch_calls
    /\ TaskFrame

\* The unload request returns, with any status, or raises (lines 538-555);
\* import time binds the local name.
switch_unload ==
    /\ switch_pc = "unload"
    /\ \E answer \in {"returned", "raised"} :
          /\ switch_answers' = [switch_answers EXCEPT !.unload = answer]
          /\ IF answer = "raised"
             THEN /\ SwitchRaise(Append(switch_events, End("unload")), RequestFailed)
                  /\ UNCHANGED time_bound
             ELSE /\ time_bound' = TRUE
                  /\ switch_pc' = "load"
                  /\ switch_events' = switch_events \o <<End("unload"), Send("load")>>
                  /\ UNCHANGED switch_outcome
    /\ UNCHANGED retry
    /\ UNCHANGED switch_calls
    /\ TaskFrame

\* The head of the readiness loop (lines 561-565, 576) at index n:
\* time.sleep needs the local name time, then the poll is sent.
PollNext(events, n) ==
    /\ retry' = n
    /\ IF n >= max_retries THEN SwitchRaise(events, NeverReady)
       ELSE IF ~time_bound THEN SwitchRaise(events, TimeUnbound)
       ELSE /\ switch_pc' = "poll"
            /\ switch_events' = Append(events, Send("poll"))
            /\ UNCHANGED switch_outcome

\* The load request returns or raises (lines 555-565).
switch_load ==
    /\ switch_pc = "load"
    /\ \E answer \in {"200", "other", "raised"} :
          /\ switch_answers' = [switch_answers EXCEPT !.load = answer]
          /\ CASE answer = "raised" ->
                      /\ SwitchRaise(Append(switch_events, End("load")), RequestFailed)
                      /\ UNCHANGED retry
               [] answer = "other" ->
                      /\ SwitchRaise(Append(switch_events, End("load")), LoadRefused)
                      /\ UNCHANGED retry
               [] OTHER -> PollNext(Append(switch_events, End("load")), 0)
    /\ UNCHANGED time_bound
    /\ UNCHANGED switch_calls
    /\ TaskFrame

\* A readiness poll returns or raises (lines 565-576): 200 with status
\* "healthy", any other answer, or an exception caught at line 571.
switch_poll ==
    /\ switch_pc = "poll"
    /\ \E answer \in {"healthy", "not_ready", "raised"} :
          /\ switch_answers' = [switch_answers EXCEPT !.poll = answer]
          /\ IF answer = "healthy"
             THEN /\ SwitchReturn(Append(switch_events, End("poll")),
                                  switch_calls[Len(switch_calls)].model_name)
                  /\ UNCHANGED retry
             ELSE PollNext(Append(switch_events, End("poll")), retry + 1)
    /\ UNCHANGED time_bound
    /\ UNCHANGED switch_calls
    /\ TaskFrame

\* The signals WorkerThread.run emits once task_func has ended (lines 16-18).
Emitted_Silent(outcome) ==
    IF outcome.raised THEN <<>>
    ELSE <<[name |-> "finished", arg |-> outcome.value]>>

Emitted(outcome) ==
    IF outcome.raised THEN <<[name |-> "error", arg |-> outcome.value]>>
    ELSE <<[name |-> "finished", arg |-> outcome.value]>>

run_emit ==
    /\ switch_pc = "ended"
    /\ switch_signals' = switch_signals \o Emitted(switch_outcome[1])
    /\ switch_pc' = "done"
    /\ UNCHANGED <<workerFields, results, pc, i, inflight, disk, heap, signals, log,
                   sent, samplingVars, configVars, formatVars, selected_files,
                   widgetVars, batches, clicks, single, buttonVars,
                   model_combo_enabled, load_model_button_enabled, switch_kwargs,
                   switch_calls, switch_events, switch_answers, retry, time_bound,
                   switch_outcome, switch_handled>>

\* The slot of WorkerThread.finished (lines 857-862).
on_switch_complete ==
    /\ switch_handled < Len(switch_signals)
    /\ switch_signals[switch_handled + 1].name = "finished"
    /\ switch_handled' = switch_handled + 1
    /\ model_combo_enabled' = TRUE
    /\ generate_enabled' = ShouldEnable(is_batch_mode, selected_files,
                                        current_image_path)
    /\ UNCHANGED <<workerFields, results, pc, i, inflight, disk, heap, signals, log,
                   sent, samplingVars, configVars, formatVars, selected_files,
                   widgetVars, batches, clicks, single, controls_enabled,
                   is_batch_mode, current_image_path, orphans,
                   load_model_button_enabled, switch_kwargs, taskVars>>

\* The slot of WorkerThread.error (lines 864-869); get_current_model selects
\* the model the server reports when the combo box lists it.
on_switch_error ==
    /\ switch_handled < Len(switch_signals)
    /\ switch_signals[switch_handled + 1].name = "error"
    /\ switch_handled' = switch_handled + 1
    /\ model_combo_enabled' = TRUE
    /\ current_model' \in ModelNames \cup {current_model}
    /\ UNCHANGED <<workerFields, results, pc, i, inflight, disk, heap, signals, log,
                   sent, samplingVars, configVars, formatVars, selected_files,
                   prefix_text, use_tags_checked, batches, clicks, single, buttonVars,
                   load_model_button_enabled, switch_kwargs, taskVars>>

\* The window with any text in the combo box.
InitSwitch ==
    \E config \in {<<[api_url |-> DefaultUrl, api_key |-> k]>> : k \in KeyInputs} :
        Window(config, <<>>, ComboTexts)

NextSwitch ==
    \/ upload_image
    \/ load_selected_model
    \/ run_task_func
    \/ switch_health
    \/ switch_unload
    \/ switch_load
    \/ switch_poll
    \/ run_emit
    \/ on_switch_complete
    \/ on_switch_error

SpecSwitch == InitSwitch /\ [][NextSwitch]_vars

NextMode ==
    \/ toggle_mode
    \/ select_folder
    \/ upload_image
    \/ generate_caption_single

SpecMode == InitUI /\ [][NextMode]_vars

NextButtons ==
    \/ toggle_mode
    \/ select_folder
    \/ check_backend_status
    \/ toggle_use_tags
    \/ generate_caption
    \/ batch_processing_finished
    \/ batch_processing_error
    \/ LoopNext
    \/ PrepareRequest
    \/ HandleResponse
    \/ RunFinished
    \/ RunError

SpecButtons == InitUI /\ [][NextButtons]_vars

NextFormat ==
    \/ toggle_mode
    \/ select_folder
    \/ show_format_dialog
    \/ generate_caption
    \/ batch_processing_finished
    \/ batch_processing_error
    \/ LoopNext
    \/ PrepareRequest
    \/ HandleResponse
    \/ RunFinished
    \/ RunError

SpecFormat == InitUI /\ [][NextFormat]_vars

\* The window up to the end of its first batch: the Caption Format dialog,
\* the launch and the worker, without the slots that end the batch.
NextFormatSave ==
    \/ toggle_mode
    \/ select_folder
    \/ show_format_dialog
    \/ generate_caption
    \/ LoopNext
    \/ PrepareRequest
    \/ HandleResponse
    \/ RunFinished
    \/ RunError

SpecFormatSave == InitUI /\ [][NextFormatSave]_vars

----------------------------------------------------------------------------
(* Observations used by the properties *)

IsProgress(e) == e.type = "progress"
IsTerminal(e) == e.type \in {"finished", "error"}

ProgressEvents == SelectSeq(signals, IsProgress)
TerminalEvents == SelectSeq(signals, IsTerminal)

EndedWith(type) == pc = "done" /\ signals # <<>> /\ signals[Len(signals)].type = type

\* The image whose processing concluded in this step, if any.
Concluded == Len(log') = Len(log) + 1
Last == log'[Len(log')]

\* Classification of what the endpoint answered, as seen on the wire.
NoUsableChoice(r) ==
    /\ ~r.raised
    /\ \/ r.status # 200
       \/ r.body.json /\ ~(r.body.has_choices /\ Len(r.body.choices) > 0)

Unparsable(r) ==
    /\ ~r.raised
    /\ r.status = 200
    /\ \/ ~r.body.json
       \/ /\ r.body.json /\ r.body.has_choices /\ Len(r.body.choices) > 0
          /\ ~r.body.choices[1].has_content

Usable(r) ==
    /\ ~r.raised
    /\ r.status = 200
    /\ r.body.json /\ r.body.has_choices /\ Len(r.body.choices) > 0
    /\ r.body.choices[1].has_content

ExpectedCaption(r) ==
    IF prefix # <<>> THEN prefix \o <<"\n">> \o r.body.choices[1].content
    ELSE r.body.choices[1].content

SidecarOf(image_path) == <<image_path[1], caption_format>>

\* Number of places at which t occurs in s.
Occurrences(s, t) ==
    Cardinality({k \in 1..Len(s) :
                    k + Len(t) - 1 <= Len(s) /\ SubSeq(s, k, k + Len(t) - 1) = t})

----------------------------------------------------------------------------
(* C1: when a batch ends with finished, the progress events emitted over   *)
(* the run are exactly (1,N), (2,N), ..., (N,N), one per input image,      *)
(* whatever the outcome of each image.                                     *)
C1_ProgressSequence ==
    EndedWith("finished") =>
        ProgressEvents = [k \in 1..N |-> Progress(k, N)]

(* C2: when a batch ends with finished, every entry of the results mapping *)
(* has its caption sidecar on disk, holding exactly the mapped caption.    *)
C2_SidecarEqualsResult ==
    EndedWith("finished") =>
        \A p \in DOMAIN results :
            /\ SidecarOf(p) \in DOMAIN disk
            /\ disk[SidecarOf(p)] = results[p]

(* C3: for every image whose processing has concluded, a caption sidecar   *)
(* was written for it in this run iff the results mapping has an entry for *)
(* it; an image whose sidecar write raised has no entry.                   *)
C3_SidecarIffResult ==
    \A k \in 1..Len(log) :
        (log[k].write = "ok") <=> (image_files[k] \in DOMAIN results)

(* C4: a failed read of image X does not abort the batch: the step records *)
(* nothing, writes nothing, emits no terminal signal and returns to the    *)
(* loop head; X never gets an entry, and finished is emitted only when     *)
(* every image of the list has been attempted.                             *)
C4_ReadFailureSkips ==
    /\ [][(Concluded /\ ~Last.read) =>
             /\ results' = results
             /\ disk' = disk
             /\ signals' = signals
             /\ pc' = "loop"]_vars
    /\ [](\A k \in 1..Len(log) : ~log[k].read => image_files[k] \notin DOMAIN results)
    /\ [](EndedWith("finished") => Len(log) = N)

C4_Witness ==
    /\ EndedWith("finished")
    /\ \E k \in 1..(Len(log) - 1) :
          /\ ~log[k].read
          /\ log[k + 1].write = "ok"
          /\ image_files[k + 1] \in DOMAIN signals[Len(signals)].results

(* C5: a non-200 answer, or a 200 answer with an absent or empty choices   *)
(* list, for image X records nothing and writes nothing, raises nothing    *)
(* (the progress event of X is emitted) and the loop goes on; the results  *)
(* mapping never holds an entry for such an image.                         *)
C5_NoUsableChoiceSkips ==
    /\ [][(Concluded /\ Last.read /\ NoUsableChoice(Last.resp)) =>
             /\ results' = results
             /\ disk' = disk
             /\ Last.write = "none"
             /\ signals' = Append(signals, Progress(i, N))
             /\ pc' = "loop"]_vars
    /\ [](\A k \in 1..Len(log) :
             (log[k].read /\ NoUsableChoice(log[k].resp)) =>
                 image_files[k] \notin DOMAIN results)

C5_Witness ==
    /\ EndedWith("finished")
    /\ \E k \in 1..(Len(log) - 1) :
          /\ log[k].read /\ log[k].resp.status = 500
          /\ log[k].resp.body.has_choices
          /\ log[k + 1].read /\ log[k + 1].resp.body = EmptyChoices
          /\ log[k + 1].resp.status = 200
    /\ results = <<>>

(* C6: a 200 answer that is not valid JSON, or whose first choice has no   *)
(* message content, is contained to its image: nothing is recorded or      *)
(* written, error is not emitted and the loop goes on.                     *)
C6_BadBodyContained ==
    [][(Concluded /\ Last.read /\ Unparsable(Last.resp)) =>
          /\ results' = results
          /\ disk' = disk
          /\ Last.write = "none"
          /\ \A k \in 1..Len(signals') : signals'[k].type # "error"
          /\ pc' = "loop"]_vars

C6_Witness ==
    /\ EndedWith("finished")
    /\ \E k \in 1..(Len(log) - 1) :
          /\ log[k].read /\ Unparsable(log[k].resp) /\ ~log[k].resp.body.json
          /\ log[k + 1].write = "ok"
          /\ image_files[k] \notin DOMAIN results
          /\ image_files[k + 1] \in DOMAIN results

(* C7: a run emits exactly one terminal signal, finished or error, and it  *)
(* is the last signal: after it no progress event is emitted, no further   *)
(* image is processed and nothing more is recorded or written.             *)
C7_OneTerminalSignal ==
    /\ [](Len(TerminalEvents) <= 1)
    /\ [](pc = "done" => Len(TerminalEvents) = 1 /\ IsTerminal(signals[Len(signals)]))
    /\ [](\A k \in 1..Len(signals) : IsTerminal(signals[k]) => k = Len(signals))
    /\ [][TerminalEvents # <<>> =>
             /\ signals' = signals
             /\ log' = log
             /\ results' = results
             /\ disk' = disk
             /\ inflight' = inflight]_vars

C7_Witness ==
    /\ EndedWith("error")
    /\ Len(log) < N
    /\ ProgressEvents # <<>>
    /\ Len(TerminalEvents) = 1

(* C8: an image answered 200 with a non-empty choices list whose sidecar   *)
(* write succeeds is recorded as image_path -> caption, the caption being  *)
(* the first choice's content with the non-empty prefix and a newline in   *)
(* front; the sidecar is overwritten with that same text; finished carries *)
(* the mapping and is emitted only after every image was attempted.        *)
C8_SuccessRecorded ==
    /\ [][(Concluded /\ Last.read /\ Usable(Last.resp) /\ Last.write = "ok") =>
             /\ SidecarOf(image_files[i]) \in DOMAIN disk'
             /\ disk'[SidecarOf(image_files[i])] = ExpectedCaption(Last.resp)
             /\ image_files[i] \in DOMAIN results'
             /\ results'[image_files[i]] = ExpectedCaption(Last.resp)]_vars
    /\ [](\A k \in 1..Len(log) :
             (log[k].read /\ Usable(log[k].resp) /\ log[k].write = "ok") =>
                 /\ image_files[k] \in DOMAIN results
                 /\ results[image_files[k]] = ExpectedCaption(log[k].resp))
    /\ [](EndedWith("finished") =>
             /\ Len(log) = N
             /\ i = N
             /\ signals[Len(signals)].results = results)

C8_Witness ==
    /\ EndedWith("finished")
    /\ prefix = <<"P">>
    /\ image_files[1] = <<"a", Png>>
    /\ log[1].write = "ok"
    /\ log[1].resp.body.choices[1].content = <<"D">>
    /\ InitialDisk[<<"a", Caption>>] = OldText
    /\ disk[<<"a", Caption>>] = <<"P", "\n", "D">>
    /\ results[<<"a", Png>>] = <<"P", "\n", "D">>

(* C9: the URL a batch posts to ends with exactly one occurrence of        *)
(* /v1/chat/completions, for every configured base URL.                    *)
C9_OneSuffix ==
    \A k \in 1..Len(inflight) :
        /\ endswith(inflight[k].url, ChatSuffix)
        /\ Occurrences(inflight[k].url, ChatSuffix) = 1

(* C10: every request of one batch carries the same sampling mapping, also *)
(* when the Sampling dialog saves new settings while the batch runs, and   *)
(* no step of the worker changes the mapping it was launched with.         *)
C10_SamplingFrozen ==
    /\ [](Cardinality(sent) <= 1)
    /\ [](\A k \in 1..Len(inflight) : inflight[k].sampling \in sent)
    /\ [][(pc # "idle" /\ pc' # "idle") =>
             /\ sampling_config' = sampling_config
             /\ heap'[sampling_config'] = heap[sampling_config]]_vars

C10_Witness ==
    /\ pc = "await"
    /\ i = 2
    /\ Len(log) = 1 /\ log[1].read
    /\ saves = 1
    /\ mw_sampling_config # sampling_config
    /\ heap[sampling_config] = DefaultSampling
    /\ heap[mw_sampling_config] # DefaultSampling
    /\ sent = {DefaultSampling}

----------------------------------------------------------------------------
(* Observations of a request as posted *)

IsUser(m) == m.role = "user"
IsText(part) == part.type = "text"

UserMessage(r) == SelectSeq(r.json.messages, IsUser)[1]
TextPart(r) == SelectSeq(UserMessage(r).content, IsText)[1].text

TagSidecarOf(image_path) == <<image_path[1], tags_format>>

(* C11: with use_tags set and a readable tag sidecar next to the image,    *)
(* the text part of the image's request is the base prompt, the fixed      *)
(* sentence, " <tags>\n", the trimmed tag text and "\n</tags>"; with       *)
(* use_tags unset or no sidecar it is the base prompt unchanged, whatever  *)
(* the previous image's prompt was.                                        *)
C11_TagAugmentation ==
    \A k \in 1..Len(inflight) :
        LET r == inflight[k]
            image_path == image_files[r.index]
        IN  /\ (r.tags = "read") =>
                   /\ use_tags /\ TagSidecarOf(image_path) \in DOMAIN disk
                   /\ TextPart(r) =
                        user_prompt
                        \o <<" Also here are booru tags for better understanding of the picture, you can use them as reference.">>
                        \o <<" <tags>\n">>
                        \o strip(disk[TagSidecarOf(image_path)])
                        \o <<"\n</tags>">>
            /\ (~use_tags \/ TagSidecarOf(image_path) \notin DOMAIN disk) =>
                   /\ r.tags \in {"off", "absent"}
                   /\ TextPart(r) = user_prompt

C11_Witness ==
    /\ use_tags
    /\ image_files = <<<<"a", Png>>, <<"b", Png>>>>
    /\ Len(log) = 1 /\ log[1].tags = "read"
    /\ Len(inflight) = 1
    /\ inflight[1].index = 2
    /\ inflight[1].tags = "absent"
    /\ TextPart(inflight[1]) = BriefPrompt

(* C12: a failure while reading the tag sidecar is fatal neither to the    *)
(* image nor to the batch: the request of the image is still posted, with  *)
(* the base prompt as its text part, no signal is emitted for the failure, *)
(* and a usable answer is recorded and written as for any other image.     *)
C12_TagFailureNotFatal ==
    /\ [](\A k \in 1..Len(inflight) :
             inflight[k].tags = "error" => TextPart(inflight[k]) = user_prompt)
    /\ [][(Concluded /\ Last.tags = "error" /\ Last.read) =>
             /\ Len(inflight) = 1
             /\ inflight[1].index = i
             /\ inflight[1].tags = "error"]_vars
    /\ [][(inflight = <<>> /\ inflight' # <<>>) => signals' = signals]_vars
    /\ [][(Concluded /\ Last.tags = "error" /\ Usable(Last.resp) /\ Last.write = "ok") =>
             /\ image_files[i] \in DOMAIN results'
             /\ disk'[SidecarOf(image_files[i])] = results'[image_files[i]]]_vars

C12_Witness ==
    /\ EndedWith("finished")
    /\ use_tags
    /\ image_files[1] = <<"a", Png>>
    /\ log[1].tags = "error"
    /\ log[1].write = "ok"
    /\ <<"a", Png>> \in DOMAIN results
    /\ disk[<<"a", Caption>>] = results[<<"a", Png>>]
    /\ disk[<<"a", Txt>>] = TagText

\* t is s without its leading and trailing spaces.
IsTrimOf(t, s) ==
    /\ t # <<>> => (t[1] # " " /\ t[Len(t)] # " ")
    /\ \E lo \in 1..(Len(s) + 1), hi \in 0..Len(s) :
          /\ t = SubSeq(s, lo, hi)
          /\ \A k \in 1..Len(s) : (k < lo \/ k > hi) => s[k] = " "

(* C13: the prefix the worker holds is the prefix text without surrounding *)
(* whitespace and does not change during the run; with a non-empty trimmed *)
(* prefix P and a returned caption C the recorded result and the sidecar   *)
(* both hold P, a newline, C, with P occurring once; with an empty trimmed *)
(* prefix both hold C unchanged.                                           *)
C13_PrefixOnce ==
    /\ [](IsTrimOf(prefix, prefix_text))
    /\ [][prefix' = prefix]_vars
    /\ [][(Concluded /\ Last.read /\ Usable(Last.resp) /\ Last.write = "ok") =>
             LET C == Last.resp.body.choices[1].content
                 path == image_files[i]
                 expected == IF prefix = <<>> THEN C ELSE prefix \o <<"\n">> \o C
             IN  /\ results'[path] = expected
                 /\ disk'[SidecarOf(path)] = expected
                 /\ prefix # <<>> => Occurrences(expected, prefix) = 1]_vars

C13_Witness ==
    /\ prefix_text = <<" ", "P", " ">>
    /\ prefix = <<"P">>
    /\ image_files = <<<<"b", Png>>>>
    /\ Len(log) = 1
    /\ log[1].resp.body = ChoicesOf(<<Choice(<<"C">>)>>)
    /\ log[1].write = "ok"
    /\ results[<<"b", Png>>] = <<"P", "\n", "C">>
    /\ disk[<<"b", Caption>>] = <<"P", "\n", "C">>

(* C14: the body of every request has a messages list of exactly one       *)
(* message, of role user, whose content is the image part (the data URL    *)
(* "data:image/jpeg;base64," followed by the base64 of the image bytes)    *)
(* and then the text part carrying the prompt; every key of the sampling   *)
(* mapping is in the body next to messages, with its value.                *)
C14_RequestBody ==
    \A k \in 1..Len(inflight) :
        LET r == inflight[k]
            image_path == image_files[r.index]
            sampling == heap[sampling_config]
        IN  /\ "messages" \in DOMAIN r.json
            /\ Len(r.json.messages) = 1
            /\ r.json.messages[1].role = "user"
            /\ Len(r.json.messages[1].content) = 2
            /\ r.json.messages[1].content[1].type = "image_url"
            /\ r.json.messages[1].content[1].url =
                   <<"data:image/jpeg;base64,", "base64", "bytes", image_path>>
            /\ r.json.messages[1].content[2].type = "text"
            /\ r.json.messages[1].content[2].text \in
                   {user_prompt,
                    user_prompt \o TagSentence \o <<" <tags>\n", "1girl", "\n</tags>">>}
            /\ \A key \in DOMAIN sampling :
                   key \in DOMAIN r.json /\ r.json[key] = sampling[key]

(* C15: images are processed one after the other in input order: at most  *)
(* one request is in flight, it belongs to the image the loop is at, it is *)
(* posted only when every earlier image has concluded and nothing is in    *)
(* flight, and images conclude in the order of the input list.             *)
C15_Sequential ==
    /\ [](Len(inflight) <= 1)
    /\ [](\A k \in 1..Len(inflight) :
             /\ inflight[k].index = i
             /\ Len(log) = i - 1)
    /\ [][(inflight' # inflight /\ inflight' # <<>>) =>
             /\ inflight = <<>>
             /\ Len(inflight') = 1
             /\ Len(log) = inflight'[1].index - 1]_vars
    /\ [][Concluded => Len(log') = i]_vars

C15_Witness ==
    /\ image_files = <<<<"a", Jpg>>, <<"b", Png>>>>
    /\ Len(inflight) = 1
    /\ inflight[1].index = 2
    /\ Len(log) = 1
    /\ log[1].write = "ok"
    /\ <<"a", Jpg>> \in DOMAIN results

(* C16: while a batch runs, no file with the batch's tags extension is     *)
(* created or changed, and every file that is created or changed has the   *)
(* batch's caption extension, whatever extensions the Caption Format       *)
(* dialog accepted before the batch was launched.                          *)
C16_TagSidecarsUntouched ==
    [][pc # "idle" =>
          /\ \A p \in DOMAIN disk' :
                p[2] = tags_format => (p \in DOMAIN disk /\ disk'[p] = disk[p])
          /\ \A p \in DOMAIN disk' :
                (p \notin DOMAIN disk \/ disk'[p] # disk[p]) => p[2] = caption_format]_vars

(* C17: while the API URL or the API key of the window is empty, a click   *)
(* on Generate sends no request (not even the test request), creates and   *)
(* starts no worker and opens the configuration dialog; a worker only ever *)
(* runs with a non-empty URL and key.                                      *)
C17_ConfigCheckedFirst ==
    /\ [][(pc = "idle" /\ (mw_api_url = <<>> \/ mw_api_key = <<>>)) =>
             /\ pc' = "idle"
             /\ batches' = batches
             /\ inflight' = <<>>
             /\ workerFields' = workerFields
             /\ clicks' # clicks =>
                    clicks' = Append(clicks, [test_request |-> FALSE,
                                              config_dialog |-> TRUE])]_vars
    /\ [](pc # "idle" => (api_url # <<>> /\ api_key # <<>>))
    /\ [](\A k \in 1..Len(inflight) :
             inflight[k].headers.Authorization # <<"Bearer ">>)

C17_Witness ==
    /\ pc = "idle"
    /\ batches = 0
    /\ selected_files # <<>>
    /\ mw_api_url # <<>>
    /\ mw_api_key = <<>>
    /\ Len(clicks) = 2
    /\ clicks[1] = [test_request |-> FALSE, config_dialog |-> TRUE]
    /\ clicks[2] = [test_request |-> FALSE, config_dialog |-> TRUE]
    /\ inflight = <<>>

(* C18: for every input list, one that names a path twice included,       *)
(* every key of the results mapping is a path of the input list, the       *)
(* mapping (a dict, so with at most one entry per key) never has more      *)
(* entries than the list has distinct paths, hence never more than N, and  *)
(* the mapping handed over with finished is that mapping.                  *)
C18_ResultKeys ==
    LET paths == {image_files[k] : k \in 1..Len(image_files)}
    IN  /\ DOMAIN results \subseteq paths
        /\ Cardinality(DOMAIN results) <= Cardinality(paths)
        /\ Cardinality(DOMAIN results) <= Len(image_files)
        /\ \A p \in paths : Cardinality({q \in DOMAIN results : q = p}) <= 1
        /\ EndedWith("finished") => signals[Len(signals)].results = results

C18_Witness ==
    /\ EndedWith("finished")
    /\ image_files = <<<<"a", Png>>, <<"a", Png>>>>
    /\ log[1].write = "ok" /\ log[1].resp.body.choices[1].content = <<"C">>
    /\ log[2].write = "ok" /\ log[2].resp.body.choices[1].content = <<"D">>
    /\ DOMAIN results = {<<"a", Png>>}
    /\ results[<<"a", Png>>] = <<"D">>

(* C19: the progress events of a run have strictly increasing indices in  *)
(* 1..N, each at most once, and all carry total = N; the event of index k  *)
(* is emitted in the step that concludes image k, while the loop is still  *)
(* at image k, so neither before image k concluded nor after image k+1     *)
(* started.                                                                *)
C19_ProgressOrder ==
    /\ [](\A k \in 1..Len(ProgressEvents) :
             /\ ProgressEvents[k].index \in 1..Len(image_files)
             /\ ProgressEvents[k].total = Len(image_files)
             /\ ProgressEvents[k].index <= Len(log)
             /\ \A j \in 1..(k - 1) :
                    ProgressEvents[j].index < ProgressEvents[k].index)
    /\ [][(Len(signals') > Len(signals) /\ signals'[Len(signals')].type = "progress") =>
             /\ Len(signals') = Len(signals) + 1
             /\ Concluded
             /\ signals'[Len(signals')].index = Len(log')
             /\ signals'[Len(signals')].index = i
             /\ i' = i]_vars

C19_Witness ==
    /\ pc = "loop"
    /\ Len(image_files) = 2
    /\ i = 2
    /\ Len(log) = 2
    /\ Len(signals) = 2
    /\ signals[1].type = "progress" /\ signals[1].index = 1 /\ signals[1].total = 2
    /\ signals[2].type = "progress" /\ signals[2].index = 2 /\ signals[2].total = 2

(* C20: a started batch is never cancelled: every step of a running       *)
(* worker leaves it running or ends it with a terminal signal, and when    *)
(* every request returns or raises the run eventually ends with finished   *)
(* or error; finished comes only after every image of the list was         *)
(* attempted, each once.                                                   *)
C20_RunsToTheEnd ==
    /\ <>(pc = "done" /\ Len(TerminalEvents) = 1)
    /\ [][(pc # "idle" /\ pc # "done") =>
             \/ (pc' \in {"loop", "body", "await"} /\ TerminalEvents' = <<>>)
             \/ (pc' = "done" /\ Len(TerminalEvents') = 1)]_vars
    /\ [](Len(log) <= i /\ i <= Len(image_files))
    /\ [](EndedWith("finished") => Len(log) = Len(image_files))

C20_Witness ==
    /\ EndedWith("finished")
    /\ image_files = <<<<"b", Png>>, <<"a", Png>>>>
    /\ Len(log) = 2
    /\ log[1].read /\ log[1].resp.raised
    /\ ~log[2].read
    /\ ProgressEvents = <<>>

(* C21: the step that aborts a batch with error changes no file and no     *)
(* result, nothing changes after it, and in the aborted batch every        *)
(* sidecar written for an image (and not written again for a later image   *)
(* of the same stem) still holds the text that was written.                *)
C21_NoRollback ==
    /\ [][(pc # "done" /\ pc' = "done" /\ signals'[Len(signals')].type = "error") =>
             /\ disk' = disk
             /\ results' = results]_vars
    /\ [][pc = "done" => disk' = disk]_vars
    /\ [](EndedWith("error") =>
             \A k \in 1..Len(log) :
                 (/\ log[k].write = "ok"
                  /\ \A j \in (k + 1)..Len(log) :
                        SidecarOf(image_files[j]) = SidecarOf(image_files[k])
                            => log[j].write = "none") =>
                     /\ SidecarOf(image_files[k]) \in DOMAIN disk
                     /\ disk[SidecarOf(image_files[k])] = ExpectedCaption(log[k].resp))

C21_Witness ==
    /\ EndedWith("error")
    /\ image_files = <<<<"a", Png>>, <<"b", Png>>>>
    /\ Len(log) = 1
    /\ log[1].write = "ok"
    /\ prefix = <<>>
    /\ log[1].resp.body.choices[1].content = <<"C">>
    /\ disk[<<"a", Caption>>] = <<"C">>
    /\ InitialDisk[<<"a", Caption>>] = OldText

DotPrefixed(ext) == ext # <<>> /\ ext[1] = "."

(* C22: a Save click in the Caption Format dialog whose trimmed texts do   *)
(* not both start with a dot writes no file and changes no extension of    *)
(* the window; an accepted one stores the trimmed texts; so the window's   *)
(* extensions, the stored ones and those of every launched batch start     *)
(* with a dot.                                                             *)
C22_DotPrefixed ==
    /\ [](DotPrefixed(mw_tags_format) /\ DotPrefixed(mw_caption_format))
    /\ [](pc # "idle" => (DotPrefixed(tags_format) /\ DotPrefixed(caption_format)))
    /\ [](format_json # <<>> =>
             /\ DotPrefixed(format_json[1].tags_format)
             /\ DotPrefixed(format_json[1].caption_format))
    /\ [][format_saves' # format_saves =>
             LET typed == format_dialog'[1]
                 dotted(text) ==
                     \E lo \in 1..Len(text), hi \in 1..Len(text) :
                         /\ IsTrimOf(SubSeq(text, lo, hi), text)
                         /\ DotPrefixed(SubSeq(text, lo, hi))
             IN  IF dotted(typed.tags_format) /\ dotted(typed.caption_format)
                 THEN /\ IsTrimOf(mw_tags_format', typed.tags_format)
                      /\ IsTrimOf(mw_caption_format', typed.caption_format)
                      /\ format_json' = <<[tags_format |-> mw_tags_format',
                                           caption_format |-> mw_caption_format']>>
                 ELSE /\ format_json' = format_json
                      /\ mw_tags_format' = mw_tags_format
                      /\ mw_caption_format' = mw_caption_format]_vars

C22_Witness ==
    /\ format_saves = 1
    /\ format_dialog = <<[tags_format |-> <<" ", ".", "caption", " ">>,
                          caption_format |-> <<"txt">>]>>
    /\ format_json = <<>>
    /\ mw_tags_format = Txt /\ mw_caption_format = Caption
    /\ pc = "await"
    /\ tags_format = Txt /\ caption_format = Caption

(* C23: the sampling mapping a batch is launched with depends on the model *)
(* name: with "exl2" in the name, in any case, it is the fixed greedy set  *)
(* with max_tokens of the user's configuration (500 when it has none);     *)
(* otherwise it is the user's configuration, key for key.                  *)
C23_SamplingByModel ==
    [][(pc = "idle" /\ pc' = "loop") =>
          LET user == heap[mw_sampling_config]
              given == heap'[sampling_config']
              exl2 == \E k \in DOMAIN current_model :
                          current_model[k] \in {"exl2", "EXL2", "Exl2"}
          IN  IF exl2
              THEN given =
                     [temperature |-> "1.0", top_k |-> 1, top_p |-> "1.0",
                      typical |-> "1.0", min_p |-> "0.0", mirostat |-> FALSE,
                      smoothing_factor |-> "0.0", tfs |-> "1.0",
                      temperature_last |-> FALSE,
                      token_repetition_penalty |-> "1.0",
                      token_frequency_penalty |-> "0.0",
                      token_presence_penalty |-> "0.0",
                      max_tokens |-> IF "max_tokens" \in DOMAIN user
                                     THEN user.max_tokens ELSE 500]
              ELSE given = user]_vars

C23_Witness ==
    /\ current_model = <<"Qwen", "-", "EXL2">>
    /\ sampling_json = <<PartialSampling>>
    /\ heap[mw_sampling_config] = PartialSampling
    /\ pc = "await"
    /\ inflight[1].sampling.top_k = 1
    /\ inflight[1].sampling.max_tokens = 500
    /\ inflight[1].json.max_tokens = 500

(* C24: from the launch of a batch worker until its finished or error     *)
(* handler has run the Generate button is disabled, so no worker is        *)
(* replaced in MainWindow.worker while it still runs.                      *)
C24_OneBatchAtATime ==
    /\ pc # "idle" => ~generate_enabled
    /\ orphans = 0

(* C25: a single-image request sent with 'Use Reference Tags' checked and  *)
(* a readable tag sidecar with the configured extension next to the image  *)
(* carries the tag sentence and the <tags> wrapper exactly once.           *)
C25_TagBlockOnce ==
    (/\ single # <<>>
     /\ single[1].sent
     /\ single[1].checked
     /\ single[1].tags_readable
     /\ single[1].has_sidecar) =>
        /\ Occurrences(single[1].text, TagSentence) = 1
        /\ Occurrences(single[1].text, <<" <tags>\n">>) = 1
        /\ Occurrences(single[1].text, <<"\n</tags>">>) = 1

(* C30: whatever images and folders were selected and however the mode     *)
(* radios were toggled, the Generate button is enabled only when the       *)
(* selected mode has a target, and a single-image generation always has    *)
(* current_image_path set.                                                 *)
C30_EnabledHasTarget ==
    /\ generate_enabled =>
           \/ (is_batch_mode /\ selected_files # <<>>)
           \/ (~is_batch_mode /\ current_image_path # <<>>)
    /\ single # <<>> => single[1].image_path # <<>>

----------------------------------------------------------------------------
(* Model switch: observations *)

TaskEnded == switch_outcome # <<>>
TaskRaised == TaskEnded /\ switch_outcome[1].raised
TaskSucceeded == TaskEnded /\ ~switch_outcome[1].raised
SentKinds ==
    LET sends == SelectSeq(switch_events, LAMBDA e : e.ev = "send")
    IN [k \in DOMAIN sends |-> sends[k].kind]
PollsMade == Len(SelectSeq(switch_events, LAMBDA e : e = Send("poll")))
WasSent(kind) == \E k \in DOMAIN switch_events : switch_events[k] = Send(kind)
Rank(kind) ==
    CASE kind = "health" -> 1 [] kind = "unload" -> 2 [] kind = "load" -> 3
      [] OTHER -> 4

\* C26: once on_switch_complete or on_switch_error has run for the worker that
\* load_selected_model started, the model combo box and the Load button are
\* both enabled again.
C26_ControlsReenabled ==
    switch_handled > 0 => model_combo_enabled /\ load_model_button_enabled

\* C27: the requests of switch_model_task are sent in the order health check,
\* unload, load, readiness polls, with one health check, at most one unload and
\* one load; the unload is sent only after the health check answered 200; every
\* request is sent after the one before it ended, so the load never precedes
\* the return of the unload; a load that does not answer 200 ends the task
\* with an error and without a poll; success comes only from a poll, made
\* after the load answered 200, that reported healthy.
C27_RequestOrder ==
    /\ switch_events # <<>> => SentKinds[1] = "health"
    /\ \A k \in DOMAIN SentKinds : k > 1 =>
           /\ Rank(SentKinds[k - 1]) <= Rank(SentKinds[k])
           /\ Rank(SentKinds[k - 1]) = Rank(SentKinds[k]) => SentKinds[k] = "poll"
    /\ WasSent("unload") => switch_answers.health = "200"
    /\ WasSent("poll") => WasSent("load")
    /\ \A k \in DOMAIN switch_events : k > 1 /\ switch_events[k].ev = "send" =>
           switch_events[k - 1] = End(SentKinds[Len(SelectSeq(SubSeq(switch_events, 1, k - 1),
                                                        LAMBDA e : e.ev = "send"))])
    /\ switch_answers.load \in {"other", "raised"} => TaskRaised /\ PollsMade = 0
    /\ TaskSucceeded =>
           /\ switch_answers.load = "200"
           /\ switch_answers.poll = "healthy"
           /\ switch_events[Len(switch_events)] = End("poll")

C27_Witness ==
    /\ TaskSucceeded
    /\ WasSent("unload")
    /\ PollsMade > 1

\* C28: after the load request answered 200 the task makes at most
\* max_retries (30) polls; a poll reporting healthy ends it with success at
\* once; a poll that raises or answers anything else is followed by the next
\* poll; and the task ends with an error exactly when max_retries polls were
\* made and none reported healthy.
C28_BoundedPolling ==
    /\ PollsMade <= max_retries
    /\ switch_answers.poll = "healthy" => TaskSucceeded
    /\ TaskSucceeded => switch_answers.poll = "healthy"
    /\ (switch_answers.poll \in {"not_ready", "raised"} /\ PollsMade < max_retries) =>
           ~TaskEnded /\ switch_pc = "poll"
    /\ (switch_answers.load = "200" /\ TaskRaised) =>
           /\ PollsMade = max_retries
           /\ switch_answers.poll \in {"not_ready", "raised"}

\* C29: a run of WorkerThread calls task_func once, with the stored keyword
\* arguments, and has emitted exactly one signal when it is over: finished
\* with the result when task_func returned, error with the exception's text
\* when it raised; before that it has emitted nothing, and it never emits
\* progress.
C29_ExactlyOneSignal ==
    /\ switch_pc \in {"none", "started"} => switch_calls = <<>>
    /\ switch_pc \notin {"none", "started"} =>
           /\ Len(switch_calls) = 1
           /\ switch_calls[1] = switch_kwargs[1]
    /\ switch_pc # "done" => switch_signals = <<>>
    /\ switch_pc = "done" =>
           /\ Len(switch_signals) = 1
           /\ switch_signals[1].name = (IF TaskRaised THEN "error" ELSE "finished")
           /\ switch_signals[1].arg = switch_outcome[1].value
    /\ \A k \in DOMAIN switch_signals : switch_signals[k].name # "progress"

C29_Witness ==
    /\ switch_pc = "done"
    /\ TaskRaised
    /\ switch_signals = <<[name |-> "error", arg |-> switch_outcome[1].value]>>

====
